---- MODULE Spec2Model ----
(***************************************************************************)
(* Model of pkg/api/federation.go: federationServer.fetch, the federation  *)
(* pull endpoint.  One call is a loop "poll ctx -> it.Next -> filter ->    *)
(* aggregate"; the context may be cancelled by the environment at any      *)
(* point; a partial response can be resumed by a further call that passes  *)
(* the returned nextFetchToken.                                            *)
(*                                                                         *)
(* Strings are sequences of byte values ("A" = <<65>>, "::" = <<58,58>>),  *)
(* so that ToUpper, sort.Strings, strings.Join and Sprintf are computed.   *)
(***************************************************************************)
EXTENDS Integers, Sequences, FiniteSets, TLC

\* ---------------------------------------------------------------- bounds
\* longest stored record sequence the iterator scans
MaxRecs == 2
\* most fetch calls in one chain (first call plus resumptions)
MaxCalls == 2

\* ---------------------------------------------------------------- strings
EmptyStr == <<>>
StrA == <<65>>
StrB == <<66>>
StrLowA == <<97>>
StrX == <<120>>
Sep == <<58, 58>>

\* strings.ToUpper on ASCII bytes
UpperByte(c) == IF c >= 97 /\ c <= 122 THEN c - 32 ELSE c

ToUpper(s) == [i \in 1..Len(s) |-> UpperByte(s[i])]

\* Go's string order: bytewise lexicographic, a proper prefix sorts first
RECURSIVE StrLess(_, _)
StrLess(a, b) ==
    IF b = <<>> THEN FALSE
    ELSE IF a = <<>> THEN TRUE
    ELSE IF a[1] # b[1] THEN a[1] < b[1]
    ELSE StrLess(Tail(a), Tail(b))

RECURSIVE InsertSorted(_, _)
InsertSorted(x, l) ==
    IF l = <<>> THEN <<x>>
    ELSE IF StrLess(l[1], x) THEN <<l[1]>> \o InsertSorted(x, Tail(l))
    ELSE <<x>> \o l

\* sort.Strings: ascending
RECURSIVE SortStrings(_)
SortStrings(l) ==
    IF l = <<>> THEN <<>> ELSE InsertSorted(l[1], SortStrings(Tail(l)))

\* strings.Join
RECURSIVE Join(_, _)
Join(l, sep) ==
    IF l = <<>> THEN <<>>
    ELSE IF Len(l) = 1 THEN l[1]
    ELSE l[1] \o sep \o Join(Tail(l), sep)

\* the %d verb on a non-negative integer
RECURSIVE FormatInt(_)
FormatInt(n) ==
    IF n < 10 THEN <<48 + n>> ELSE FormatInt(n \div 10) \o <<48 + (n % 10)>>

Range(s) == {s[i] : i \in 1..Len(s)}

\* ---------------------------------------------------------------- inputs
\* time.Time as seconds and nanoseconds since the epoch
TimeAt(sec, nsec) == [sec |-> sec, nsec |-> nsec]

\* time.Time.Unix
Unix(t) == t.sec

\* time.Unix(sec, 0)
TimeUnix(sec) == TimeAt(sec, 0)

\* pb.DiagnosisStatus_name: the recognized enum values
DiagnosisStatus_name == {0, 1}

\* model.Infection as the iterator hands it out; nil = TRUE is the nil pointer
Infection(key, regions, lp, status, auth, created) ==
    [nil |-> FALSE, K |-> 0, DiagnosisKey |-> key, Regions |-> regions,
     LocalProvenance |-> lp, DiagnosisStatus |-> status,
     VerificationAuthorityName |-> auth, IntervalNumber |-> 7,
     IntervalCount |-> 1, CreatedAt |-> created]

NilInfection ==
    [Infection(<<>>, <<>>, FALSE, 0, <<>>, TimeAt(0, 0)) EXCEPT !.nil = TRUE]

\* the kinds of stored record the scan can meet; K and a non-empty
\* DiagnosisKey are stamped with the record's position in the store
RecordKinds ==
    { Infection(<<1>>, <<StrA, StrB>>, TRUE, 0, EmptyStr, TimeAt(1, 0)),
      Infection(<<1>>, <<StrB, StrA>>, TRUE, 1, StrX, TimeAt(2, 500)),
      Infection(<<1>>, <<StrA>>, TRUE, 0, EmptyStr, TimeAt(-1, 0)),
      Infection(<<1>>, <<StrLowA>>, TRUE, 0, EmptyStr, TimeAt(0, 0)),
      Infection(<<>>, <<StrA>>, TRUE, 0, EmptyStr, TimeAt(3, 0)),
      Infection(<<1>>, <<>>, TRUE, 0, EmptyStr, TimeAt(3, 0)),
      Infection(<<1>>, <<StrB>>, FALSE, 0, EmptyStr, TimeAt(3, 0)),
      Infection(<<1>>, <<StrB>>, TRUE, 9, EmptyStr, TimeAt(3, 0)),
      NilInfection }

Stamp(l) ==
    [i \in 1..Len(l) |->
        IF l[i].nil THEN l[i]
        ELSE [l[i] EXCEPT !.K = i,
                          !.DiagnosisKey = IF l[i].DiagnosisKey = <<>>
                                           THEN <<>> ELSE <<i>>]]

SeqsUpTo(S, n) == UNION {[1..k -> S] : k \in 0..n}

Stores == {Stamp(l) : l \in SeqsUpTo(RecordKinds, MaxRecs)}

\* the kinds a chain of resumed calls is followed over: nil, and the records
\* with regions, local provenance and the first status (kept or dropped by
\* the key and region rules)
ChainKinds ==
    {k \in RecordKinds :
        k.nil \/ (k.Regions # <<>> /\ k.LocalProvenance /\ k.DiagnosisStatus = 0)}

ChainStores == {Stamp(l) : l \in SeqsUpTo(ChainKinds, MaxRecs)}

IncludeLists == {<<>>, <<StrLowA>>, <<StrB>>, <<StrA, StrB>>}
ExcludeLists == {<<>>, <<StrLowA>>, <<StrA, StrB>>}

\* pb.FederationFetchRequest
Requests ==
    [RegionIdentifiers : IncludeLists,
     ExcludeRegionIdentifiers : ExcludeLists,
     LastFetchResponseKeyTimestamp : {0},
     NextFetchToken : {EmptyStr}]

\* model.TruncateWindow(time.Now()), the horizon Fetch passes to fetch
FetchUntilTimes == {TimeAt(3600, 0)}

\* ---------------------------------------------------------------- state
VARIABLES
    store,            \* the records the storage scan yields, in scan order
    fetchUntil,       \* fetch's fetchUntil argument
    req,              \* *pb.FederationFetchRequest of the current call
    ctxDone,          \* whether ctx.Done() is closed
    pc,               \* position of the call: start, select, next, process, returned
    criteria,         \* database.FetchInfectionsCriteria handed to itFunc
    includedRegions,  \* map[string]struct{} of requested regions
    excludedRegions,  \* map[string]struct{} of excluded regions
    itPos,            \* scan position of the open iterator
    ctrMap,           \* ctrKey -> index of its entry in response.Response
    ctiMap,           \* ctiKey -> <<index of the ctr, index of the cti in it>>
    response,         \* *pb.FederationFetchResponse being assembled
    inf,              \* the record it.Next returned last
    ret,              \* what the call returned: response or nil, and the error
    calls,            \* fetch calls begun in this chain
    chainKeys,        \* diagnosis keys returned by the chain's earlier calls
    h                 \* history of the current call, for stating the claims

vars == <<store, fetchUntil, req, ctxDone, pc, criteria, includedRegions,
          excludedRegions, itPos, ctrMap, ctiMap, response, inf, ret, calls,
          chainKeys, h>>

\* &pb.FederationFetchResponse{}
EmptyResponse ==
    [Response |-> <<>>, FetchResponseKeyTimestamp |-> 0,
     PartialResponse |-> FALSE, NextFetchToken |-> EmptyStr]

\* database.FetchInfectionsCriteria{}
ZeroCriteria ==
    [SinceTimestamp |-> TimeAt(0, 0), UntilTimestamp |-> TimeAt(0, 0),
     LastCursor |-> EmptyStr, OnlyLocalProvenance |-> FALSE,
     IncludeRegions |-> <<>>]

NoReturn == [hasResp |-> FALSE, resp |-> EmptyResponse, err |-> "none"]

\* return response, nil
ReturnOk(resp) == [hasResp |-> TRUE, resp |-> resp, err |-> "nil"]

\* an error return that hands back the response assembled so far as well
ReturnErrWithData(resp, kind) == [hasResp |-> TRUE, resp |-> resp, err |-> kind]

\* return nil, fmt.Errorf(...)
ReturnErr(resp, kind) == [hasResp |-> FALSE, resp |-> EmptyResponse, err |-> kind]

\* the zero value of pb.FederationFetchRequest
ZeroRequest ==
    [RegionIdentifiers |-> <<>>, ExcludeRegionIdentifiers |-> <<>>,
     LastFetchResponseKeyTimestamp |-> 0, NextFetchToken |-> EmptyStr]

NoHistory ==
    [pulled |-> <<>>, lateNext |-> 0, lateKeys |-> {}, observed |-> FALSE,
     nextAfterObserved |-> 0, cursorCalls |-> 0, cursorOk |-> FALSE,
     cursorTok |-> EmptyStr, exhausted |-> FALSE, fatal |-> "none",
     reqIn |-> ZeroRequest, polls |-> 0, nextCalls |-> 0, nextLate |-> 0,
     sawDone |-> FALSE, nextAfterSaw |-> 0]

\* a counter of the record of the call, which stops at MaxCount; one call
\* polls at most Len(store) + 1 times
MaxCount == MaxRecs + 2
Count(n) == IF n < MaxCount THEN n + 1 ELSE n

\* one more call of it.Next() on the record of the call, made with the
\* context in state done
CountNext(hist, done) ==
    [hist EXCEPT !.nextCalls = Count(@),
                 !.nextLate = IF done THEN @ + 1 ELSE @,
                 !.nextAfterSaw = IF hist.sawDone THEN @ + 1 ELSE @]

\* ---------------------------------------------------------------- iterator
\* the token the iterator's Cursor() gives for scan position p; at the
\* start of the scan it may be the empty token or a token naming position 0
CursorTokens(p) ==
    IF p = 0 THEN {EmptyStr, <<99>> \o FormatInt(0)} ELSE {<<99>> \o FormatInt(p)}

\* the scan position a LastCursor token resumes at ("" = from the beginning)
PositionOf(tok) ==
    IF tok = EmptyStr THEN 0 ELSE CHOOSE p \in 0..MaxRecs : tok \in CursorTokens(p)

\* what an iterator that honours criteria.IncludeRegions hands out of recs:
\* the records that list the one region of the criteria, in the same order
HonouredResults(recs, c) ==
    LET Listed(rec) ==
            /\ ~rec.nil
            /\ \E i \in 1..Len(rec.Regions) : rec.Regions[i] = c.IncludeRegions[1]
    IN IF Len(c.IncludeRegions) = 1 THEN SelectSeq(recs, Listed) ELSE recs

\* ---------------------------------------------------------------- fetch
NormalizedRequest(r) ==
    [r EXCEPT !.RegionIdentifiers =
                  [i \in 1..Len(r.RegionIdentifiers) |-> ToUpper(r.RegionIdentifiers[i])],
              !.ExcludeRegionIdentifiers =
                  [i \in 1..Len(r.ExcludeRegionIdentifiers) |->
                      ToUpper(r.ExcludeRegionIdentifiers[i])]]

\* criteria that pass any non-empty inclusion list on to the query
BuildCriteriaAnyRegions(r, until) ==
    [SinceTimestamp |-> TimeUnix(r.LastFetchResponseKeyTimestamp),
     UntilTimestamp |-> until,
     LastCursor |-> r.NextFetchToken,
     OnlyLocalProvenance |-> TRUE,
     IncludeRegions |-> IF Len(r.RegionIdentifiers) >= 1
                        THEN r.RegionIdentifiers ELSE <<>>]

\* lines 63-71: database.IterateInfectionsCriteria
BuildCriteria(r, until) ==
    [SinceTimestamp |-> TimeUnix(r.LastFetchResponseKeyTimestamp),
     UntilTimestamp |-> until,
     LastCursor |-> r.NextFetchToken,
     OnlyLocalProvenance |-> TRUE,
     IncludeRegions |-> IF Len(r.RegionIdentifiers) = 1
                        THEN r.RegionIdentifiers ELSE <<>>]

\* fetch up to the loop: normalize the request, build the criteria and the
\* two region sets, open the iterator
FetchOpen ==
    /\ pc = "start"
    /\ LET n == NormalizedRequest(req)
           c == BuildCriteria(n, fetchUntil)
       IN /\ req' = n
          /\ criteria' = c
          /\ includedRegions' = Range(n.RegionIdentifiers)
          /\ excludedRegions' = Range(n.ExcludeRegionIdentifiers)
          /\ \/ /\ itPos' = PositionOf(c.LastCursor)
                /\ pc' = "select"
                /\ ret' = NoReturn
                /\ h' = [h EXCEPT !.reqIn = req]
             \/ /\ itPos' = itPos
                /\ pc' = "returned"
                /\ ret' = ReturnErr(EmptyResponse, "querying infections")
                /\ h' = [h EXCEPT !.fatal = "open", !.reqIn = req]
    /\ ctrMap' = <<>>
    /\ ctiMap' = <<>>
    /\ response' = EmptyResponse
    /\ calls' = calls + 1
    /\ UNCHANGED <<store, fetchUntil, ctxDone, inf, chainKeys>>

\* a select that always falls through to its default case
InterruptedNever(done) == FALSE

\* select { case <-ctx.Done(): ... default: }: the Done case is taken exactly
\* when the context is done at the poll
Interrupted(done) == done

\* what ctx.Err() can report once the context is done: the two errors of
\* package context, or the error of a context of the caller's own
CtxErrs == {"DeadlineExceeded", "Canceled", "Other"}

\* err != context.DeadlineExceeded && err != context.Canceled is fatal
ExpectedCtxErr(e) == e \in {"DeadlineExceeded", "Canceled"}

\* a partial response that forgets to carry the cursor
MarkPartialNoToken(resp, cursor) == [resp EXCEPT !.PartialResponse = TRUE]

\* response.PartialResponse = true; response.NextFetchToken = cursor
MarkPartial(resp, cursor) ==
    [resp EXCEPT !.PartialResponse = TRUE, !.NextFetchToken = cursor]

\* top of the loop: the poll of the context, and on a deadline the cursor
\* and the partial return (the loop condition then ends the loop)
Poll ==
    /\ pc = "select"
    /\ ~response.PartialResponse
    /\ IF ~Interrupted(ctxDone)
       THEN /\ pc' = "next"
            /\ h' = [h EXCEPT !.polls = Count(@)]
            /\ UNCHANGED <<response, ret>>
       ELSE \E err \in CtxErrs :
            IF ~ExpectedCtxErr(err)
            THEN /\ pc' = "returned"
                 /\ ret' = ReturnErr(response, "context error")
                 /\ h' = [h EXCEPT !.polls = Count(@), !.sawDone = TRUE,
                                   !.fatal = "context"]
                 /\ UNCHANGED response
            ELSE \/ /\ pc' = "returned"
                    /\ ret' = ReturnErr(response, "generating cursor")
                    /\ h' = [h EXCEPT !.polls = Count(@), !.sawDone = TRUE,
                                      !.observed = TRUE,
                                      !.cursorCalls = @ + 1, !.cursorOk = FALSE,
                                      !.fatal = "cursor"]
                    /\ UNCHANGED response
                 \/ \E cursor \in CursorTokens(itPos) :
                    /\ response' = MarkPartial(response, cursor)
                    /\ pc' = "returned"
                    /\ ret' = ReturnOk(response')
                    /\ h' = [h EXCEPT !.polls = Count(@), !.sawDone = TRUE,
                                      !.observed = TRUE, !.cursorCalls = @ + 1,
                                      !.cursorOk = TRUE, !.cursorTok = cursor]
    /\ UNCHANGED <<store, fetchUntil, req, ctxDone, criteria, includedRegions,
                   excludedRegions, itPos, ctrMap, ctiMap, inf, calls, chainKeys>>

\* a Next step that treats the end of the result set as one more partial stop
ItNextCursorOnDone ==
    /\ pc = "next"
    /\ \/ /\ pc' = "returned"
          /\ ret' = ReturnErr(response, "iterating results")
          /\ h' = [CountNext(h, ctxDone) EXCEPT !.fatal = "next"]
          /\ UNCHANGED <<itPos, inf>>
       \/ /\ itPos = Len(store)
          /\ pc' = "returned"
          /\ \E cursor \in CursorTokens(itPos) :
                ret' = ReturnOk(MarkPartial(response, cursor))
          /\ h' = [CountNext(h, ctxDone) EXCEPT !.exhausted = TRUE]
          /\ UNCHANGED <<itPos, inf>>
       \/ /\ itPos < Len(store)
          /\ inf' = store[itPos + 1]
          /\ itPos' = itPos + 1
          /\ pc' = "process"
          /\ h' = [CountNext(h, ctxDone) EXCEPT
                     !.pulled = Append(@, store[itPos + 1]),
                     !.lateNext = IF ctxDone THEN @ + 1 ELSE @,
                     !.lateKeys = IF ctxDone /\ ~store[itPos + 1].nil
                                  THEN @ \cup {store[itPos + 1].DiagnosisKey} ELSE @,
                     !.nextAfterObserved = IF h.observed THEN @ + 1 ELSE @]
          /\ UNCHANGED ret
    /\ UNCHANGED <<store, fetchUntil, req, ctxDone, criteria, includedRegions,
                   excludedRegions, ctrMap, ctiMap, response, calls, chainKeys>>

\* a Next step whose done result sends the loop round again (continue where
\* the code has break)
ItNextContinuesOnDone ==
    /\ pc = "next"
    /\ \/ /\ pc' = "returned"
          /\ ret' = ReturnErr(response, "iterating results")
          /\ h' = [CountNext(h, ctxDone) EXCEPT !.fatal = "next"]
          /\ UNCHANGED <<itPos, inf>>
       \/ /\ itPos = Len(store)
          /\ pc' = "select"
          /\ h' = CountNext(h, ctxDone)
          /\ UNCHANGED <<itPos, inf, ret>>
       \/ /\ itPos < Len(store)
          /\ inf' = store[itPos + 1]
          /\ itPos' = itPos + 1
          /\ pc' = "process"
          /\ h' = [CountNext(h, ctxDone) EXCEPT
                     !.pulled = Append(@, store[itPos + 1]),
                     !.lateNext = IF ctxDone THEN @ + 1 ELSE @,
                     !.lateKeys = IF ctxDone /\ ~store[itPos + 1].nil
                                  THEN @ \cup {store[itPos + 1].DiagnosisKey} ELSE @,
                     !.nextAfterObserved = IF h.observed THEN @ + 1 ELSE @]
          /\ UNCHANGED ret
    /\ UNCHANGED <<store, fetchUntil, req, ctxDone, criteria, includedRegions,
                   excludedRegions, ctrMap, ctiMap, response, calls, chainKeys>>

\* inf, done, err := it.Next(), with the error return and the break on done
ItNext ==
    /\ pc = "next"
    /\ \/ /\ pc' = "returned"
          /\ ret' = ReturnErr(response, "iterating results")
          /\ h' = [CountNext(h, ctxDone) EXCEPT !.fatal = "next"]
          /\ UNCHANGED <<itPos, inf>>
       \/ /\ itPos = Len(store)
          /\ pc' = "returned"
          /\ ret' = ReturnOk(response)
          /\ h' = [CountNext(h, ctxDone) EXCEPT !.exhausted = TRUE]
          /\ UNCHANGED <<itPos, inf>>
       \/ /\ itPos < Len(store)
          /\ inf' = store[itPos + 1]
          /\ itPos' = itPos + 1
          /\ pc' = "process"
          /\ h' = [CountNext(h, ctxDone) EXCEPT
                     !.pulled = Append(@, store[itPos + 1]),
                     !.lateNext = IF ctxDone THEN @ + 1 ELSE @,
                     !.lateKeys = IF ctxDone /\ ~store[itPos + 1].nil
                                  THEN @ \cup {store[itPos + 1].DiagnosisKey} ELSE @,
                     !.nextAfterObserved = IF h.observed THEN @ + 1 ELSE @]
          /\ UNCHANGED ret
    /\ UNCHANGED <<store, fetchUntil, req, ctxDone, criteria, includedRegions,
                   excludedRegions, ctrMap, ctiMap, response, calls, chainKeys>>

\* a filter that drops a record as soon as one of its regions is excluded
SkipReasonAnyExcluded(rec, included, excluded) ==
    IF Len(rec.DiagnosisKey) = 0 THEN "missing DiagnosisKey"
    ELSE IF Len(rec.Regions) = 0 THEN "missing Regions"
    ELSE IF ~rec.LocalProvenance THEN "not LocalProvenance"
    ELSE IF rec.DiagnosisStatus \notin DiagnosisStatus_name THEN "invalid DiagnosisStatus"
    ELSE IF \E i \in 1..Len(rec.Regions) : rec.Regions[i] \in excluded
         THEN "only excluded regions"
    ELSE IF Cardinality(included) > 0
            /\ ~(\E i \in 1..Len(rec.Regions) : rec.Regions[i] \in included)
         THEN "no requested region"
    ELSE "none"

\* a filter that applies the inclusion list only to regions that are not
\* excluded
SkipReasonIncludedMustSurvive(rec, included, excluded) ==
    IF Len(rec.DiagnosisKey) = 0 THEN "missing DiagnosisKey"
    ELSE IF Len(rec.Regions) = 0 THEN "missing Regions"
    ELSE IF ~rec.LocalProvenance THEN "not LocalProvenance"
    ELSE IF rec.DiagnosisStatus \notin DiagnosisStatus_name THEN "invalid DiagnosisStatus"
    ELSE IF ~(\E i \in 1..Len(rec.Regions) : rec.Regions[i] \notin excluded)
         THEN "only excluded regions"
    ELSE IF Cardinality(included) > 0
            /\ ~(\E i \in 1..Len(rec.Regions) :
                    rec.Regions[i] \in included /\ rec.Regions[i] \notin excluded)
         THEN "no requested region"
    ELSE "none"

\* a filter chain that leaves a single requested region to the iterator's
\* criteria and only checks inclusion itself for two regions or more
SkipReasonTrustsQuery(rec, included, excluded) ==
    IF Len(rec.DiagnosisKey) = 0 THEN "missing DiagnosisKey"
    ELSE IF Len(rec.Regions) = 0 THEN "missing Regions"
    ELSE IF ~rec.LocalProvenance THEN "not LocalProvenance"
    ELSE IF rec.DiagnosisStatus \notin DiagnosisStatus_name THEN "invalid DiagnosisStatus"
    ELSE IF ~(\E i \in 1..Len(rec.Regions) : rec.Regions[i] \notin excluded)
         THEN "only excluded regions"
    ELSE IF Cardinality(included) > 1
            /\ ~(\E i \in 1..Len(rec.Regions) : rec.Regions[i] \in included)
         THEN "no requested region"
    ELSE "none"

\* a filter chain that leaves provenance to the iterator's criteria
SkipReasonAnyProvenance(rec, included, excluded) ==
    IF Len(rec.DiagnosisKey) = 0 THEN "missing DiagnosisKey"
    ELSE IF Len(rec.Regions) = 0 THEN "missing Regions"
    ELSE IF rec.DiagnosisStatus \notin DiagnosisStatus_name THEN "invalid DiagnosisStatus"
    ELSE IF ~(\E i \in 1..Len(rec.Regions) : rec.Regions[i] \notin excluded)
         THEN "only excluded regions"
    ELSE IF Cardinality(included) > 0
            /\ ~(\E i \in 1..Len(rec.Regions) : rec.Regions[i] \in included)
         THEN "no requested region"
    ELSE "none"

\* the filter of lines 134-188: the reason the record is skipped, or "none"
SkipReason(rec, included, excluded) ==
    IF Len(rec.DiagnosisKey) = 0 THEN "missing DiagnosisKey"
    ELSE IF Len(rec.Regions) = 0 THEN "missing Regions"
    ELSE IF ~rec.LocalProvenance THEN "not LocalProvenance"
    ELSE IF rec.DiagnosisStatus \notin DiagnosisStatus_name THEN "invalid DiagnosisStatus"
    ELSE IF ~(\E i \in 1..Len(rec.Regions) : rec.Regions[i] \notin excluded)
         THEN "only excluded regions"
    ELSE IF Cardinality(included) > 0
            /\ ~(\E i \in 1..Len(rec.Regions) : rec.Regions[i] \in included)
         THEN "no requested region"
    ELSE "none"

\* strings.Join(inf.Regions, "::") on the sorted region list
CtrKey(sortedRegions) == Join(sortedRegions, Sep)

\* fmt.Sprintf("%s::%d::%s", ctrKey, status, inf.VerificationAuthorityName)
CtiKey(ctrKey, status, authority) ==
    ctrKey \o Sep \o FormatInt(status) \o Sep \o authority

\* a watermark that takes the last record's time instead of the largest
WatermarkLast(current, created) == created

\* if created > response.FetchResponseKeyTimestamp { ... = created }
Watermark(current, created) == IF created > current THEN created ELSE current

\* a lookup that never finds the entry, so every record opens a new group
MissingAlways(map, key) == TRUE

\* ctr := ctrMap[ctrKey]; if ctr == nil (and the same for ctiMap)
Missing(map, key) == key \notin DOMAIN map

\* ctrMap[ctrKey] = ctr
MapPut(map, key, value) ==
    [x \in DOMAIN map \cup {key} |-> IF x = key THEN value ELSE map[x]]

\* a key built from the region list in the order the record carries it
SortRegionsSkipped(rec) == rec

\* sort.Strings(inf.Regions): the record's own region list is sorted in place
SortRegions(rec) == [rec EXCEPT !.Regions = SortStrings(@)]

\* a key list that grows at the front
AppendKeyInFront(keys, k) == <<k>> \o keys

\* cti.DiagnosisKeys = append(cti.DiagnosisKeys, ...)
AppendKey(keys, k) == Append(keys, k)

\* lines 190-220: fold one surviving record into the response and its two
\* indexes; agg = [response, ctrMap, ctiMap], rec.Regions already sorted
Aggregate(agg, rec) ==
    LET ctrKey == CtrKey(rec.Regions)
        newCtr == Missing(agg.ctrMap, ctrKey)
        resp1 == IF newCtr
                 THEN Append(agg.response.Response,
                             [RegionIdentifiers |-> rec.Regions,
                              ContactTracingInfo |-> <<>>])
                 ELSE agg.response.Response
        ctrMap1 == IF newCtr THEN MapPut(agg.ctrMap, ctrKey, Len(resp1))
                   ELSE agg.ctrMap
        c == ctrMap1[ctrKey]
        status == rec.DiagnosisStatus
        ctiKey == CtiKey(ctrKey, status, rec.VerificationAuthorityName)
        newCti == Missing(agg.ctiMap, ctiKey)
        resp2 == IF newCti
                 THEN [resp1 EXCEPT ![c].ContactTracingInfo =
                          Append(@, [DiagnosisStatus |-> status,
                                     VerificationAuthorityName |->
                                         rec.VerificationAuthorityName,
                                     DiagnosisKeys |-> <<>>])]
                 ELSE resp1
        ctiMap1 == IF newCti
                   THEN MapPut(agg.ctiMap, ctiKey,
                               <<c, Len(resp2[c].ContactTracingInfo)>>)
                   ELSE agg.ctiMap
        at == ctiMap1[ctiKey]
        resp3 == [resp2 EXCEPT ![at[1]].ContactTracingInfo[at[2]].DiagnosisKeys =
                     AppendKey(@, [DiagnosisKey |-> rec.DiagnosisKey,
                                   IntervalNumber |-> rec.IntervalNumber,
                                   IntervalCount |-> rec.IntervalCount])]
    IN [response |-> [agg.response EXCEPT
                        !.Response = resp3,
                        !.FetchResponseKeyTimestamp =
                            Watermark(@, Unix(rec.CreatedAt))],
        ctrMap |-> ctrMap1,
        ctiMap |-> ctiMap1]

\* the loop of lines 98-221 run over recs with no interruption and no error
RECURSIVE FoldRecords(_, _, _, _)
FoldRecords(agg, recs, included, excluded) ==
    IF recs = <<>> THEN agg
    ELSE FoldRecords(
            IF recs[1].nil \/ SkipReason(recs[1], included, excluded) # "none"
            THEN agg ELSE Aggregate(agg, SortRegions(recs[1])),
            Tail(recs), included, excluded)

\* the response of one uninterrupted fetch of request r over recs
Uninterrupted(recs, r) ==
    FoldRecords([response |-> EmptyResponse, ctrMap |-> <<>>, ctiMap |-> <<>>],
                recs,
                Range(NormalizedRequest(r).RegionIdentifiers),
                Range(NormalizedRequest(r).ExcludeRegionIdentifiers)).response

\* a loop body that looks at the context again and abandons the record it
\* has already pulled
ProcessAbandonsWhenDone ==
    /\ pc = "process"
    /\ pc' = "select"
    /\ IF inf.nil \/ SkipReason(inf, includedRegions, excludedRegions) # "none"
          \/ ctxDone
       THEN UNCHANGED <<inf, response, ctrMap, ctiMap>>
       ELSE LET sorted == SortRegions(inf)
                agg == Aggregate([response |-> response, ctrMap |-> ctrMap,
                                  ctiMap |-> ctiMap], sorted)
            IN /\ inf' = sorted
               /\ response' = agg.response
               /\ ctrMap' = agg.ctrMap
               /\ ctiMap' = agg.ctiMap
    /\ h' = [h EXCEPT !.lateKeys = IF ctxDone /\ ~inf.nil
                                   THEN @ \cup {inf.DiagnosisKey} ELSE @]
    /\ UNCHANGED <<store, fetchUntil, req, ctxDone, criteria, includedRegions,
                   excludedRegions, itPos, ret, calls, chainKeys>>

\* a loop body that raises the high-watermark before it filters
ProcessCountsSkipped ==
    /\ pc = "process"
    /\ pc' = "select"
    /\ IF inf.nil
       THEN UNCHANGED <<inf, response, ctrMap, ctiMap>>
       ELSE IF SkipReason(inf, includedRegions, excludedRegions) # "none"
       THEN /\ response' = [response EXCEPT !.FetchResponseKeyTimestamp =
                                Watermark(@, Unix(inf.CreatedAt))]
            /\ UNCHANGED <<inf, ctrMap, ctiMap>>
       ELSE LET sorted == SortRegions(inf)
                agg == Aggregate([response |-> response, ctrMap |-> ctrMap,
                                  ctiMap |-> ctiMap], sorted)
            IN /\ inf' = sorted
               /\ response' = agg.response
               /\ ctrMap' = agg.ctrMap
               /\ ctiMap' = agg.ctiMap
    /\ h' = [h EXCEPT !.lateKeys = IF ctxDone /\ ~inf.nil
                                   THEN @ \cup {inf.DiagnosisKey} ELSE @]
    /\ UNCHANGED <<store, fetchUntil, req, ctxDone, criteria, includedRegions,
                   excludedRegions, itPos, ret, calls, chainKeys>>

\* the rest of the loop body for the record Next returned: the nil check,
\* the filter, sort.Strings(inf.Regions) and the aggregation
Process ==
    /\ pc = "process"
    /\ pc' = "select"
    /\ IF inf.nil \/ SkipReason(inf, includedRegions, excludedRegions) # "none"
       THEN UNCHANGED <<inf, response, ctrMap, ctiMap>>
       ELSE LET sorted == SortRegions(inf)
                agg == Aggregate([response |-> response, ctrMap |-> ctrMap,
                                  ctiMap |-> ctiMap], sorted)
            IN /\ inf' = sorted
               /\ response' = agg.response
               /\ ctrMap' = agg.ctrMap
               /\ ctiMap' = agg.ctiMap
    /\ h' = [h EXCEPT !.lateKeys = IF ctxDone /\ ~inf.nil
                                   THEN @ \cup {inf.DiagnosisKey} ELSE @]
    /\ UNCHANGED <<store, fetchUntil, req, ctxDone, criteria, includedRegions,
                   excludedRegions, itPos, ret, calls, chainKeys>>

\* ---------------------------------------------------------------- environment
\* the context becomes done: the timeout of Fetch expires or the caller
\* cancels
Fire ==
    /\ pc \in {"select", "next", "process"}
    /\ ~ctxDone
    /\ ctxDone' = TRUE
    /\ UNCHANGED <<store, fetchUntil, req, pc, criteria, includedRegions,
                   excludedRegions, itPos, ctrMap, ctiMap, response, inf, ret,
                   calls, chainKeys, h>>

\* every diagnosis key of a response, group by group
RECURSIVE KeysOfInfos(_)
KeysOfInfos(infos) ==
    IF infos = <<>> THEN <<>>
    ELSE [i \in 1..Len(infos[1].DiagnosisKeys) |->
             infos[1].DiagnosisKeys[i].DiagnosisKey] \o KeysOfInfos(Tail(infos))

RECURSIVE KeysOfCtrs(_)
KeysOfCtrs(ctrs) ==
    IF ctrs = <<>> THEN <<>>
    ELSE KeysOfInfos(ctrs[1].ContactTracingInfo) \o KeysOfCtrs(Tail(ctrs))

KeysOf(resp) == KeysOfCtrs(resp.Response)

\* the caller continues a partial response: the same request with the
\* previous response's nextFetchToken, under a fresh context; the locals of
\* the call that returned are gone
Resume ==
    /\ pc = "returned"
    /\ ret.err = "nil"
    /\ ret.resp.PartialResponse
    /\ calls < MaxCalls
    /\ req' = [req EXCEPT !.NextFetchToken = ret.resp.NextFetchToken]
    /\ chainKeys' = chainKeys \o KeysOf(ret.resp)
    /\ pc' = "start"
    /\ ctxDone' = FALSE
    /\ ret' = NoReturn
    /\ h' = NoHistory
    /\ criteria' = ZeroCriteria
    /\ includedRegions' = {}
    /\ excludedRegions' = {}
    /\ itPos' = 0
    /\ ctrMap' = <<>>
    /\ ctiMap' = <<>>
    /\ response' = EmptyResponse
    /\ inf' = NilInfection
    /\ UNCHANGED <<store, fetchUntil, calls>>

\* the locals of a call that has not started
InitCall ==
    /\ ctxDone = FALSE
    /\ pc = "start"
    /\ criteria = ZeroCriteria
    /\ includedRegions = {}
    /\ excludedRegions = {}
    /\ itPos = 0
    /\ ctrMap = <<>>
    /\ ctiMap = <<>>
    /\ response = EmptyResponse
    /\ inf = NilInfection
    /\ ret = NoReturn
    /\ calls = 0
    /\ chainKeys = <<>>
    /\ h = NoHistory

Init ==
    /\ store \in Stores
    /\ fetchUntil \in FetchUntilTimes
    /\ req \in Requests
    /\ InitCall

\* one call of fetch, over every kind of record
Next == FetchOpen \/ Poll \/ ItNext \/ Process \/ Fire

Spec == Init /\ [][Next]_vars

\* a chain of calls, each resuming the one before
InitChain ==
    /\ store \in ChainStores
    /\ Init

NextChain == Next \/ Resume

SpecChain == InitChain /\ [][NextChain]_vars

\* records whose region codes or authority names hold the separator of the
\* two lookup keys: region "A::B" beside regions A and B, and region A with
\* authority "1::x" beside region "A::1" with authority "x", both of status 1
SepKinds ==
    { Infection(<<1>>, <<StrA \o Sep \o StrB>>, TRUE, 0, EmptyStr, TimeAt(1, 0)),
      Infection(<<1>>, <<StrA, StrB>>, TRUE, 0, EmptyStr, TimeAt(1, 0)),
      Infection(<<1>>, <<StrA>>, TRUE, 1, FormatInt(1) \o Sep \o StrX, TimeAt(1, 0)),
      Infection(<<1>>, <<StrA \o Sep \o FormatInt(1)>>, TRUE, 1, StrX, TimeAt(1, 0)) }

SepStores == {Stamp(l) : l \in SeqsUpTo(SepKinds, MaxRecs)}

\* one call of fetch, with no region asked for or excluded, over such records
InitSep ==
    /\ store \in SepStores
    /\ fetchUntil \in FetchUntilTimes
    /\ req = ZeroRequest
    /\ InitCall

SpecSep == InitSep /\ [][Next]_vars

\* one call of fetch that keeps running: fetch is sequential code on a thread
\* of its own, so whichever step it is at is eventually taken, provided
\* Next and Cursor return; nothing is assumed about the context firing
SpecLive ==
    /\ InitChain
    /\ [][Next]_vars
    /\ WF_vars(FetchOpen) /\ WF_vars(Poll) /\ WF_vars(ItNext) /\ WF_vars(Process)

\* requests that differ in since-timestamp and in token (none, or the token
\* of a scan that stopped after one record), and two horizons
WideRequests ==
    [RegionIdentifiers : IncludeLists,
     ExcludeRegionIdentifiers : {<<>>},
     LastFetchResponseKeyTimestamp : {0, 2},
     NextFetchToken : {EmptyStr} \cup CursorTokens(1)]

WideUntilTimes == {TimeAt(3600, 0), TimeAt(7200, 0)}

\* one call of fetch over every since-timestamp, token and horizon
InitCriteria ==
    /\ store \in ChainStores
    /\ fetchUntil \in WideUntilTimes
    /\ req \in WideRequests
    /\ PositionOf(req.NextFetchToken) <= Len(store)
    /\ InitCall

SpecCriteria == InitCriteria /\ [][Next]_vars

\* ---------------------------------------------------------------- claims
Returned == pc = "returned"

\* the records of this call whose loop body has run to its end
Processed ==
    IF pc = "process" THEN SubSeq(h.pulled, 1, Len(h.pulled) - 1) ELSE h.pulled

NoDuplicates(l) == \A i, j \in 1..Len(l) : i # j => l[i] # l[j]

\* the rule of the filter as the specification words it, on the request's
\* upper-cased region lists
EligibleFor(rec, inc, exc) ==
    /\ ~rec.nil
    /\ rec.DiagnosisKey # <<>>
    /\ rec.Regions # <<>>
    /\ rec.LocalProvenance
    /\ rec.DiagnosisStatus \in DiagnosisStatus_name
    /\ Range(rec.Regions) \ exc # {}
    /\ (inc = {} \/ Range(rec.Regions) \cap inc # {})

UpperSet(l) == {ToUpper(x) : x \in Range(l)}

Eligible(rec, r) ==
    EligibleFor(rec, UpperSet(r.RegionIdentifiers),
                UpperSet(r.ExcludeRegionIdentifiers))

EligibleKeys(recs, r) ==
    {recs[i].DiagnosisKey : i \in {j \in 1..Len(recs) : Eligible(recs[j], r)}}

\* C1 as stated: whenever the poll observes the context cancelled or past its
\* deadline, the call returns a successful partial response whose
\* nextFetchToken is non-empty and is the iterator's cursor.
C1_AlwaysPartialWithToken ==
    (Returned /\ h.observed) =>
        /\ ret.err = "nil" /\ ret.hasResp
        /\ ret.resp.PartialResponse
        /\ ret.resp.NextFetchToken # EmptyStr
        /\ ret.resp.NextFetchToken = h.cursorTok

\* C1 amended: when the poll observes the context cancelled or past its
\* deadline, then if Cursor() succeeds the call returns a successful response
\* with partialResponse = true and nextFetchToken exactly the token Cursor()
\* returned (empty when that token is empty), and if Cursor() fails the call
\* returns an error and no response.
C1_PartialCarriesCursor ==
    (Returned /\ h.observed) =>
        IF h.cursorOk
        THEN /\ ret.err = "nil" /\ ret.hasResp
             /\ ret.resp.PartialResponse
             /\ ret.resp.NextFetchToken = h.cursorTok
             /\ h.cursorTok \in CursorTokens(itPos)
        ELSE ret.err = "generating cursor" /\ ~ret.hasResp

C1_Witness ==
    /\ Returned /\ h.observed /\ h.cursorOk
    /\ Len(h.pulled) >= 1
    /\ ret.resp.PartialResponse
    /\ ret.resp.NextFetchToken # EmptyStr

\* C2: when a chain of calls, each resumed with the previous nextFetchToken,
\* ends with a non-partial response, the diagnosis keys of all its responses
\* together are the keys of the eligible stored records, each exactly once,
\* which are the keys of one uninterrupted fetch of the same request.
C2_ChainExactlyOnce ==
    (Returned /\ ret.err = "nil" /\ ~ret.resp.PartialResponse) =>
        LET all == chainKeys \o KeysOf(ret.resp)
        IN /\ NoDuplicates(all)
           /\ Range(all) = EligibleKeys(store, req)
           /\ Range(all) = Range(KeysOf(Uninterrupted(store, req)))

C2_Witness ==
    /\ Returned /\ ret.err = "nil" /\ ~ret.resp.PartialResponse
    /\ calls >= 2
    /\ Len(chainKeys) >= 1
    /\ Len(KeysOf(ret.resp)) >= 1

\* C3: a call in which the iterator reports exhaustion returns a response
\* with partialResponse = false and nextFetchToken = ""; and every returned
\* response with a non-empty nextFetchToken is partial.
C3_ExhaustionIsComplete ==
    Returned =>
        /\ h.exhausted =>
              /\ ret.err = "nil" /\ ret.hasResp
              /\ ~ret.resp.PartialResponse
              /\ ret.resp.NextFetchToken = EmptyStr
        /\ (ret.hasResp /\ ret.resp.NextFetchToken # EmptyStr) =>
              ret.resp.PartialResponse

C3_Witness ==
    /\ Returned /\ h.exhausted
    /\ Len(KeysOf(ret.resp)) >= 1
    /\ ret.resp.NextFetchToken = EmptyStr

\* C4 as stated: no record pulled or processed after the moment the signal
\* fired is included in the returned response.
C4_NothingAfterSignal ==
    (Returned /\ ret.hasResp) => Range(KeysOf(ret.resp)) \cap h.lateKeys = {}

\* C4 amended: the signal is only seen at the poll, so the record whose poll
\* preceded the signal is still pulled, processed and included; at most one
\* record pulled or processed after the signal fired is included, at most one
\* Next call follows the signal, and none follows a poll that observed it.
C4_OvershootAtMostOne ==
    /\ Cardinality(Range(KeysOf(response)) \cap h.lateKeys) <= 1
    /\ h.lateNext <= 1
    /\ h.nextAfterObserved = 0
    /\ (Returned /\ ret.hasResp) =>
          Cardinality(Range(KeysOf(ret.resp)) \cap h.lateKeys) <= 1

C4_Witness ==
    /\ Returned /\ ret.hasResp
    /\ ret.resp.PartialResponse
    /\ h.lateNext = 1
    /\ Cardinality(Range(KeysOf(ret.resp)) \cap h.lateKeys) = 1

\* the processed records of this call that the filter as specified keeps
Included ==
    {Processed[i] : i \in {j \in 1..Len(Processed) : Eligible(Processed[j], req)}}

\* C5: a record the iterator returned contributes its diagnosis key to the
\* response exactly when its key and region list are non-empty, it is of
\* local provenance, its status is a recognized value, one of its regions is
\* not in the upper-cased exclusion set, and the upper-cased inclusion set is
\* empty or holds one of its regions.
C5_IncludedIffEligible ==
    LET keys == Range(KeysOf(response))
        inc == UpperSet(req.RegionIdentifiers)
        exc == UpperSet(req.ExcludeRegionIdentifiers)
        done == Processed
    IN /\ \A i \in 1..Len(done) :
             ~done[i].nil =>
                (done[i].DiagnosisKey \in keys <=> EligibleFor(done[i], inc, exc))
       /\ \A k \in keys : \E i \in 1..Len(done) : done[i].DiagnosisKey = k
       /\ (Returned /\ ret.hasResp) => Range(KeysOf(ret.resp)) = keys

C5_Witness ==
    /\ Returned /\ ret.hasResp
    /\ Len(Processed) = 2
    /\ Eligible(Processed[1], req)
    /\ SkipReason(Processed[2], includedRegions, excludedRegions)
           = "no requested region"
    /\ Range(KeysOf(ret.resp)) = {Processed[1].DiagnosisKey}

\* a well-formed processed record whose regions are A and B
IsAB(rec) ==
    /\ ~rec.nil /\ rec.DiagnosisKey # <<>> /\ rec.LocalProvenance
    /\ rec.DiagnosisStatus \in DiagnosisStatus_name
    /\ Range(rec.Regions) = {StrA, StrB}

\* C6 as stated: a record with regions {A,B} fetched with exclude = {A} and
\* include = {A} is dropped, and with exclude = {A} and include = {B} is kept.
C6_DroppedWhenIncludeIsExcluded ==
    \A i \in 1..Len(Processed) :
        (IsAB(Processed[i]) /\ excludedRegions = {StrA}) =>
            /\ includedRegions = {StrA} =>
                  Processed[i].DiagnosisKey \notin Range(KeysOf(response))
            /\ includedRegions = {StrB} =>
                  Processed[i].DiagnosisKey \in Range(KeysOf(response))

\* C6 amended: a record with regions {A,B} fetched with exclude = {A} is
\* kept both with include = {A} (B is not excluded, A is included) and with
\* include = {B}.
C6_KeptEitherWay ==
    \A i \in 1..Len(Processed) :
        (IsAB(Processed[i]) /\ excludedRegions = {StrA}
            /\ includedRegions \in {{StrA}, {StrB}}) =>
            Processed[i].DiagnosisKey \in Range(KeysOf(response))

C6_Witness ==
    /\ Returned /\ ret.hasResp
    /\ excludedRegions = {StrA} /\ includedRegions = {StrA}
    /\ \E i \in 1..Len(Processed) :
          /\ IsAB(Processed[i])
          /\ Processed[i].DiagnosisKey \in Range(KeysOf(ret.resp))

\* C7: every fatal condition (the iterator fails to open, Next fails, Cursor
\* fails at a deadline stop, the context is done for another reason) ends the
\* call with an error and no response, whatever was aggregated; a call
\* without one returns a response and no error; no return carries both.
C7_FatalReturnsNoData ==
    Returned =>
        /\ h.fatal # "none" =>
              ret.err # "nil" /\ ~ret.hasResp /\ ret.resp = EmptyResponse
        /\ h.fatal = "none" => ret.err = "nil" /\ ret.hasResp
        /\ ~(ret.err # "nil" /\ ret.hasResp)

C7_Witness ==
    /\ Returned
    /\ h.fatal = "next"
    /\ Len(KeysOf(response)) >= 1
    /\ ret.err = "iterating results" /\ ~ret.hasResp

\* the two uniqueness rules on a list of ContactTracingResponse
UniqueGroups(ctrs) ==
    /\ \A i, j \in 1..Len(ctrs) :
          i # j => SortStrings(ctrs[i].RegionIdentifiers)
                       # SortStrings(ctrs[j].RegionIdentifiers)
    /\ \A c \in 1..Len(ctrs) :
          \A i, j \in 1..Len(ctrs[c].ContactTracingInfo) :
             i # j =>
                <<ctrs[c].ContactTracingInfo[i].DiagnosisStatus,
                  ctrs[c].ContactTracingInfo[i].VerificationAuthorityName>>
                # <<ctrs[c].ContactTracingInfo[j].DiagnosisStatus,
                    ctrs[c].ContactTracingInfo[j].VerificationAuthorityName>>

\* C8: at every point of the aggregation and in every returned response, no
\* two ContactTracingResponse entries have the same sorted region list, and
\* no two ContactTracingInfo of one entry have the same status and authority.
C8_GroupsUnique ==
    /\ UniqueGroups(response.Response)
    /\ (Returned /\ ret.hasResp) => UniqueGroups(ret.resp.Response)

C8_Witness ==
    /\ Returned /\ ret.hasResp
    /\ Len(ret.resp.Response) = 1
    /\ Len(ret.resp.Response[1].ContactTracingInfo) = 1
    /\ Len(ret.resp.Response[1].ContactTracingInfo[1].DiagnosisKeys) = 2

\* the indexes of the ContactTracingResponse entries that hold the key
CtrsHolding(ctrs, key) ==
    {c \in 1..Len(ctrs) : key \in Range(KeysOfInfos(ctrs[c].ContactTracingInfo))}

\* C9: two included records of one call whose region lists hold the same
\* regions in different orders have their keys under the same
\* ContactTracingResponse.
C9_OrderIndependentGroup ==
    \A i, j \in 1..Len(Processed) :
        (/\ Eligible(Processed[i], req) /\ Eligible(Processed[j], req)
         /\ SortStrings(Processed[i].Regions) = SortStrings(Processed[j].Regions))
        => /\ CtrsHolding(response.Response, Processed[i].DiagnosisKey)
                = CtrsHolding(response.Response, Processed[j].DiagnosisKey)
           /\ Cardinality(CtrsHolding(response.Response,
                                      Processed[i].DiagnosisKey)) = 1

C9_Witness ==
    /\ Returned /\ ret.hasResp
    /\ Len(Processed) = 2
    /\ Eligible(Processed[1], req) /\ Eligible(Processed[2], req)
    /\ Processed[1].Regions # Processed[2].Regions
    /\ SortStrings(Processed[1].Regions) = SortStrings(Processed[2].Regions)
    /\ Len(ret.resp.Response) = 1

\* the largest element of a non-empty set of integers
MaxOf(S) == CHOOSE x \in S : \A y \in S : y <= x

IncludedTimes == {Unix(rec.CreatedAt) : rec \in Included}

\* C10 as stated: the returned fetchResponseKeyTimestamp is the largest
\* createdAt of the included records, and 0 when none is included.
C10_WatermarkIsMaxIncluded ==
    (Returned /\ ret.hasResp) =>
        ret.resp.FetchResponseKeyTimestamp =
            IF IncludedTimes = {} THEN 0 ELSE MaxOf(IncludedTimes)

\* C10 amended: the watermark starts at 0 and is only ever raised, so it is
\* the largest of 0 and the createdAt seconds of the included records (0 when
\* none is included or none is after the epoch); dropped records never raise
\* it, and during the call it never decreases.
C10_WatermarkIsMaxAboveZero ==
    /\ response.FetchResponseKeyTimestamp = MaxOf(IncludedTimes \cup {0})
    /\ (Returned /\ ret.hasResp) =>
          ret.resp.FetchResponseKeyTimestamp = MaxOf(IncludedTimes \cup {0})

C10_Witness ==
    /\ Returned /\ ret.hasResp
    /\ Len(Processed) = 2
    /\ Eligible(Processed[1], req) /\ ~Processed[2].nil
    /\ ~Eligible(Processed[2], req)
    /\ Unix(Processed[2].CreatedAt) > Unix(Processed[1].CreatedAt)
    /\ Unix(Processed[1].CreatedAt) > 0
    /\ ret.resp.FetchResponseKeyTimestamp = Unix(Processed[1].CreatedAt)

\* the least element of a non-empty set of positions
FirstOf(S) == CHOOSE x \in S : \A y \in S : x <= y

\* the positions, in the order Next returned them, of the included records
\* whose sorted region list is regions
SeenRegions(done, r, regions) ==
    {i \in 1..Len(done) :
        Eligible(done[i], r) /\ SortStrings(done[i].Regions) = regions}

\* the same, narrowed to one status and one authority
SeenInfo(done, r, regions, status, authority) ==
    {i \in SeenRegions(done, r, regions) :
        /\ done[i].DiagnosisStatus = status
        /\ done[i].VerificationAuthorityName = authority}

\* the positions of the records that carry diagnosis key k
SeenKey(done, k) == {i \in 1..Len(done) : done[i].DiagnosisKey = k}

\* C11: the order of the response is fixed by the order of the iterator:
\* the ContactTracingResponse entries are in the order in which their region
\* list was first seen among the included records, the ContactTracingInfo
\* entries of a group in the order in which their status and authority were
\* first seen in that group, and the keys of each ContactTracingInfo in the
\* order in which their records were returned.
C11_OrderFollowsIterator ==
    LET done == Processed
        ctrs == response.Response
        ctrAt(c) == SeenRegions(done, req, ctrs[c].RegionIdentifiers)
        ctiAt(c, t) ==
            SeenInfo(done, req, ctrs[c].RegionIdentifiers,
                     ctrs[c].ContactTracingInfo[t].DiagnosisStatus,
                     ctrs[c].ContactTracingInfo[t].VerificationAuthorityName)
    IN /\ \A c \in 1..Len(ctrs) : ctrAt(c) # {}
       /\ \A c, d \in 1..Len(ctrs) :
             c < d => FirstOf(ctrAt(c)) < FirstOf(ctrAt(d))
       /\ \A c \in 1..Len(ctrs) :
             LET infos == ctrs[c].ContactTracingInfo
             IN /\ \A t \in 1..Len(infos) : ctiAt(c, t) # {}
                /\ \A t, u \in 1..Len(infos) :
                      t < u => FirstOf(ctiAt(c, t)) < FirstOf(ctiAt(c, u))
                /\ \A t \in 1..Len(infos) :
                      LET keys == infos[t].DiagnosisKeys
                      IN /\ \A a \in 1..Len(keys) :
                               SeenKey(done, keys[a].DiagnosisKey) # {}
                         /\ \A a, b \in 1..Len(keys) :
                               a < b =>
                                 FirstOf(SeenKey(done, keys[a].DiagnosisKey))
                                   < FirstOf(SeenKey(done, keys[b].DiagnosisKey))
       /\ (Returned /\ ret.hasResp) => ret.resp.Response = ctrs

\* a returned response whose one info holds the keys of two records in the
\* order of the iterator
C11_Witness ==
    /\ Returned /\ ret.hasResp
    /\ Len(Processed) = 2
    /\ Len(ret.resp.Response) = 1
    /\ Len(ret.resp.Response[1].ContactTracingInfo) = 1
    /\ Len(ret.resp.Response[1].ContactTracingInfo[1].DiagnosisKeys) = 2
    /\ [i \in 1..2 |-> ret.resp.Response[1].ContactTracingInfo[1]
                          .DiagnosisKeys[i].DiagnosisKey]
          = <<Processed[1].DiagnosisKey, Processed[2].DiagnosisKey>>

\* C12: no record whose LocalProvenance is false ever has its key in a
\* response, although the iterator here hands such records out whatever the
\* criteria say; and the criteria of every call ask for local provenance only.
C12_OnlyLocalProvenance ==
    LET keys == Range(KeysOf(response))
        done == Processed
    IN /\ \A i \in 1..Len(done) :
             (~done[i].nil /\ ~done[i].LocalProvenance) =>
                 done[i].DiagnosisKey \notin keys
       /\ \A k \in keys :
             \E i \in 1..Len(done) :
                 /\ ~done[i].nil /\ done[i].LocalProvenance
                 /\ done[i].DiagnosisKey = k
       /\ (Returned /\ ret.hasResp) => Range(KeysOf(ret.resp)) \subseteq keys
       /\ pc # "start" => criteria.OnlyLocalProvenance = TRUE

\* a returned response that holds the key of a local record and not the key
\* of the well-formed, requested, not excluded federated record pulled with it
C12_Witness ==
    /\ Returned /\ ret.hasResp
    /\ criteria.OnlyLocalProvenance
    /\ \E i, j \in 1..Len(Processed) :
          /\ ~Processed[i].nil /\ ~Processed[i].LocalProvenance
          /\ SkipReasonAnyProvenance(Processed[i], includedRegions,
                                     excludedRegions) = "none"
          /\ Processed[i].DiagnosisKey \notin Range(KeysOf(ret.resp))
          /\ ~Processed[j].nil /\ Processed[j].LocalProvenance
          /\ Processed[j].DiagnosisKey \in Range(KeysOf(ret.resp))

\* C13: for a request with exactly one inclusion region and a call that runs
\* to exhaustion, the response of the call, whose iterator ignores the
\* single-region filter of the criteria and hands out every record, is the
\* response of the same call over an iterator that honours the filter and
\* hands out only the records listing that region, in the same order.
C13_SingleRegionFilterRedundant ==
    (/\ Returned /\ ret.hasResp /\ h.exhausted
     /\ Len(req.RegionIdentifiers) = 1
     /\ Len(h.pulled) = Len(store)) =>
        /\ Len(criteria.IncludeRegions) = 1
        /\ ret.resp = Uninterrupted(HonouredResults(store, criteria), req)

\* a call with one requested region run to exhaustion over a store holding a
\* record the filter keeps and a well-formed record that does not list the
\* region, which only the in-memory filter drops
C13_Witness ==
    /\ Returned /\ ret.hasResp /\ h.exhausted
    /\ Len(req.RegionIdentifiers) = 1
    /\ Len(h.pulled) = Len(store)
    /\ Len(HonouredResults(store, criteria)) = 1
    /\ \E i \in 1..Len(store) :
          SkipReason(store[i], includedRegions, excludedRegions)
              = "no requested region"
    /\ Len(KeysOf(ret.resp)) = 1

\* C14: the criteria handed to the iterator factory have the since-timestamp
\* of the request's lastFetchResponseKeyTimestamp (whole seconds), the
\* until-timestamp fetchUntil, the request's nextFetchToken unchanged as
\* cursor, and the single-region filter set, to the upper-cased inclusion
\* region, exactly when the request lists exactly one inclusion region.
C14_CriteriaFromRequest ==
    pc # "start" =>
        LET r == h.reqIn
        IN /\ Unix(criteria.SinceTimestamp) = r.LastFetchResponseKeyTimestamp
           /\ criteria.SinceTimestamp.nsec = 0
           /\ criteria.UntilTimestamp = fetchUntil
           /\ criteria.LastCursor = r.NextFetchToken
           /\ Len(r.RegionIdentifiers) = 1 <=> criteria.IncludeRegions # <<>>
           /\ Len(r.RegionIdentifiers) = 1 =>
                 criteria.IncludeRegions = <<ToUpper(r.RegionIdentifiers[1])>>

\* a call whose request has a since-timestamp, a token and one lower-case
\* inclusion region, with the later horizon
C14_Witness ==
    /\ pc = "select"
    /\ h.reqIn.RegionIdentifiers = <<StrLowA>>
    /\ h.reqIn.LastFetchResponseKeyTimestamp = 2
    /\ h.reqIn.NextFetchToken # EmptyStr
    /\ fetchUntil = TimeAt(7200, 0)
    /\ criteria.IncludeRegions = <<StrA>>
    /\ criteria.LastCursor = h.reqIn.NextFetchToken
    /\ criteria.SinceTimestamp = TimeAt(2, 0)

\* the parts of C15 that do not involve Cursor: every call of Next comes
\* after a poll of its own that found the context not done, at most one call
\* of Next is made once the signal has fired, and none after a poll has
\* observed the signal
PolledBeforeEveryNext ==
    /\ h.nextCalls <= h.polls
    /\ pc = "next" => (h.polls = h.nextCalls + 1 /\ ~h.sawDone)
    /\ pc \in {"select", "process"} => h.polls = h.nextCalls
    /\ h.nextLate <= 1
    /\ h.nextAfterSaw = 0

\* C15 as stated: the signal is polled before every Next, at most one further
\* Next follows the firing of the signal, and once a poll has observed the
\* signal Next is never called again and Cursor is called exactly once.
C15_CursorOnceAfterSignal ==
    /\ PolledBeforeEveryNext
    /\ h.sawDone => h.cursorCalls = 1

\* C15 amended: as above, but Cursor is called exactly once only when the
\* cause of the signal is deadline-exceeded or cancelled; for any other cause
\* the call fails without calling Cursor; Cursor is never called without an
\* observed signal.
C15_CursorOnceForExpectedCause ==
    /\ PolledBeforeEveryNext
    /\ h.sawDone => (/\ Returned
                     /\ h.cursorCalls = (IF h.observed THEN 1 ELSE 0)
                     /\ h.observed <=> h.fatal # "context")
    /\ ~h.sawDone => h.cursorCalls = 0

\* the signal fired after a poll, one more Next pulled a record, and the
\* following poll observed the signal and called Cursor once
C15_Witness ==
    /\ Returned /\ h.sawDone /\ h.observed
    /\ h.nextLate = 1 /\ h.polls = h.nextCalls + 1
    /\ h.cursorCalls = 1
    /\ Len(h.pulled) = 2

\* a record the loop is to pass over: nil, or rejected by a filter rule
Rejected(rec) == rec.nil \/ ~Eligible(rec, req)

\* recs without the records the loop is to pass over
WithoutRejected(recs) ==
    LET Kept(rec) == ~Rejected(rec) IN SelectSeq(recs, Kept)

\* C16: a record rejected by a filter rule, and a nil record returned without
\* the exhaustion flag, leaves the response being built and both indexes
\* unchanged (groups, keys, high-watermark, partial flag, cursor), raises no
\* error and leaves the loop running; and the response built from the
\* records processed so far is the one built from the same sequence with the
\* rejected and nil records taken out.
C16_RejectedLeavesNoTrace ==
    /\ [][(pc = "process" /\ Rejected(inf)) =>
             /\ response' = response
             /\ ctrMap' = ctrMap /\ ctiMap' = ctiMap
             /\ ret' = NoReturn
             /\ pc' \in {"process", "select"}]_vars
    /\ []((pc \in {"select", "next", "process"} \/ (Returned /\ h.exhausted)) =>
             response = Uninterrupted(WithoutRejected(Processed), req))

\* a well-formed record of an unrequested or excluded region, then an
\* included record, both processed: only the second is in the response
C16_Witness ==
    /\ pc = "select"
    /\ Len(Processed) = 2
    /\ ~Processed[1].nil /\ Rejected(Processed[1])
    /\ Unix(Processed[1].CreatedAt) > 0
    /\ ~Rejected(Processed[2])
    /\ KeysOf(response) = <<Processed[2].DiagnosisKey>>

\* C17: infection records are read-only to fetch: the record Next returned
\* last is, field by field and with its region list in the same order, as it
\* was when Next returned it.
C17_RecordsUnchanged ==
    Len(h.pulled) > 0 => inf = h.pulled[Len(h.pulled)]

C19_KeyUnderItsOwnGroup ==
    LET done == Processed
        ctrs == response.Response
    IN \A i \in 1..Len(done) :
          Eligible(done[i], req) =>
             \E c \in 1..Len(ctrs) :
                /\ ctrs[c].RegionIdentifiers = SortStrings(done[i].Regions)
                /\ \E t \in 1..Len(ctrs[c].ContactTracingInfo) :
                      LET cti == ctrs[c].ContactTracingInfo[t]
                      IN /\ cti.DiagnosisStatus = done[i].DiagnosisStatus
                         /\ cti.VerificationAuthorityName
                                = done[i].VerificationAuthorityName
                         /\ \E a \in 1..Len(cti.DiagnosisKeys) :
                               cti.DiagnosisKeys[a].DiagnosisKey
                                   = done[i].DiagnosisKey
====
